---- MODULE Spec2Model ----
(***************************************************************************)
(* Model of the text-to-speech HTTP service of src/tts/tts_server.py:      *)
(* the two endpoints (GET /health, POST /synthesize), the system-voice and *)
(* neural adapters, the temporary-file life cycle and the lazy model load. *)
(*                                                                         *)
(* Scheduling.  The handlers are coroutines of one event loop, so the code *)
(* of a handler between two awaits is one atomic step.  The only await of  *)
(* synthesize is asyncio.to_thread(...): the adapter call runs on a worker *)
(* thread, and worker threads interleave with each other and with the      *)
(* event loop at every statement.  The neural adapter, which shares        *)
(* neural_tts.ready and neural_tts.model between threads, is therefore     *)
(* modelled statement by statement.                                        *)
(*                                                                         *)
(* Environment.  The speech engines, the neural package, the sound-file    *)
(* probe and the filesystem are outside the repository: an adapter call    *)
(* may raise an exception of any class, write any audio bytes, or leave no *)
(* file; os.unlink may fail (the code swallows that failure).  Creating    *)
(* the temporary file is taken to succeed, and the engine selector is one  *)
(* of the two values the request model admits.                             *)
(***************************************************************************)
EXTENDS Integers, Sequences, FiniteSets, TLC

\* Number of POST /synthesize requests of a run (they may all be in flight
\* together).  Requests are numbered in order of arrival.
NumReqs == 2

Reqs == 1..NumReqs

\* Temporary file names; 0 stands for temp_file = "" (line 167).
Names == 1..NumReqs

\* tts_server.py:208, the sample rate reported when the probe fails.
DefaultSampleRate == 24000

\* Request texts: empty, whitespace-only, and a word padded with whitespace.
Texts == { <<>>, <<"\t", " ">>, <<" ", "a", " ">> }

\* SynthesisRequest.engine: Literal["system", "styletts2"] (line 123).
Engines == {"system", "styletts2"}

\* Audio an adapter may leave in the output file: nothing, and byte strings
\* of every length modulo 3 (the three padding cases of base64).  A file that
\* starts with 82 ("R" of RIFF) is one the sound-file probe can read.
Waves == { <<>>, <<82>>, <<82, 73>>, <<7, 255, 130>> }

\* Exception classes an external call may raise, as far as the handler's
\* except clauses tell them apart: ImportError and everything else.
ExcKinds == {"ImportError", "RuntimeError"}

VARIABLES
    pc,            \* pc[r]: where request r is
    text,          \* text[r]: request.text
    engine,        \* engine[r]: request.engine
    temp_file,     \* temp_file[r]: the local temp_file of the handler (0 = "")
    exc,           \* exc[r]: what the adapter call raised, if anything
    wrote,         \* wrote[r]: what the adapter call of r left at its output path
    unlinkFailed,  \* unlinkFailed[r]: os.unlink raised in the finally block
    response,      \* response[r]: the HTTP response of request r
    fs,            \* the temporary directory: name -> [exists, bytes, used]
    installed,     \* the styletts2 package can be imported
    ready,         \* neural_tts.ready
    model,         \* neural_tts.model (0 = None, else the instance number)
    nInst,         \* number of tts.StyleTTS2() instances constructed so far
    health         \* the GET /health response being delivered, if any

vars == << pc, text, engine, temp_file, exc, wrote, unlinkFailed, response,
           fs, installed, ready, model, nInst, health >>

reqVars == << pc, text, engine, temp_file, exc, wrote, unlinkFailed, response >>
neuralVars == << ready, model, nInst >>

----------------------------------------------------------------------------
\* Pure helpers

\* str.isspace for the characters of Texts.
IsSpace(c) == c \in {" ", "\t", "\n", "\r"}

RECURSIVE LStrip(_)
LStrip(s) ==
    IF Len(s) > 0 /\ IsSpace(Head(s)) THEN LStrip(Tail(s)) ELSE s

RECURSIVE RStrip(_)
RStrip(s) ==
    IF Len(s) > 0 /\ IsSpace(s[Len(s)]) THEN RStrip(SubSeq(s, 1, Len(s) - 1)) ELSE s

\* A validation that forgets to strip: only the empty string is empty.
StripIdentity(s) == s

\* request.text.strip() (line 164)
Strip(s) == RStrip(LStrip(s))

\* The base64 alphabet (RFC 4648), index 1 is the digit of value 0.
B64Alphabet ==
    << "A","B","C","D","E","F","G","H","I","J","K","L","M","N","O","P",
       "Q","R","S","T","U","V","W","X","Y","Z","a","b","c","d","e","f",
       "g","h","i","j","k","l","m","n","o","p","q","r","s","t","u","v",
       "w","x","y","z","0","1","2","3","4","5","6","7","8","9","+","/" >>

B64Digit(v) == B64Alphabet[v + 1]

B64Value(c) == (CHOOSE i \in 1..Len(B64Alphabet) : B64Alphabet[i] = c) - 1

RECURSIVE B64Groups(_)
B64Groups(b) ==
    IF Len(b) = 0 THEN <<>>
    ELSE IF Len(b) = 1 THEN
        << B64Digit(b[1] \div 4), B64Digit((b[1] % 4) * 16), "=", "=" >>
    ELSE IF Len(b) = 2 THEN
        << B64Digit(b[1] \div 4),
           B64Digit((b[1] % 4) * 16 + (b[2] \div 16)),
           B64Digit((b[2] % 16) * 4), "=" >>
    ELSE
        << B64Digit(b[1] \div 4),
           B64Digit((b[1] % 4) * 16 + (b[2] \div 16)),
           B64Digit((b[2] % 16) * 4 + (b[3] \div 64)),
           B64Digit(b[3] % 64) >> \o B64Groups(SubSeq(b, 4, Len(b)))

\* base64.b64encode(audio_data).decode("utf-8") (line 198)
b64encode(b) == B64Groups(b)

\* sf.info(temp_file): reads the header; fails on a file that is no sound file.
sf_info(bytes) ==
    [ ok         |-> Len(bytes) > 0 /\ bytes[1] = 82,
      samplerate |-> 22050,
      duration   |-> Len(bytes) ]

----------------------------------------------------------------------------
\* Values

\* A name no file was created under yet, and a name whose file is gone.
\* mkstemp draws random names: a name is taken to be drawn once.
NoFile == [exists |-> FALSE, bytes |-> <<>>, used |-> FALSE]

Removed == [exists |-> FALSE, bytes |-> <<>>, used |-> TRUE]

NoExc == [kind |-> "none", msg |-> "", cause |-> "none", orig |-> ""]

NoWrite == [returned |-> FALSE, exists |-> FALSE, bytes |-> <<>>]

NoResponse ==
    [status |-> 0, detail |-> "", audio |-> <<>>, sample_rate |-> 0,
     duration |-> 0, engine |-> ""]

NoHealth == [status |-> "", active_engine |-> "", available_engines |-> <<>>]

\* active_engine_type (line 23); nothing assigns it again.
active_engine_type == "system"

\* str(e) of an exception of class kind raised at place where.
ErrText(kind, where) ==
    IF kind = "ImportError" THEN
        IF where = "sapi" THEN "No module named 'comtypes.gen'"
        ELSE IF where = "construct" THEN "No module named 'torch'"
        ELSE "No module named 'nltk'"
    ELSE
        IF where = "sapi" THEN "SAPI.SpVoice failed"
        ELSE IF where = "construct" THEN "cannot load model weights"
        ELSE "inference failed"

HTTPException(status_code, detail) ==
    [status |-> status_code, detail |-> detail, audio |-> <<>>,
     sample_rate |-> 0, duration |-> 0, engine |-> ""]

Init ==
    /\ pc = [r \in Reqs |-> "idle"]
    /\ text = [r \in Reqs |-> <<>>]
    /\ engine = [r \in Reqs |-> "system"]
    /\ temp_file = [r \in Reqs |-> 0]
    /\ exc = [r \in Reqs |-> NoExc]
    /\ wrote = [r \in Reqs |-> NoWrite]
    /\ unlinkFailed = [r \in Reqs |-> FALSE]
    /\ response = [r \in Reqs |-> NoResponse]
    /\ fs = [n \in Names |-> NoFile]
    /\ installed \in BOOLEAN
    /\ ready = FALSE
    /\ model = 0
    /\ nInst = 0
    /\ health = NoHealth


----------------------------------------------------------------------------
\* GET /health and the installer

\* A capability list that always advertises the neural engine.
EnginesAlwaysBoth(importable) == << "system", "styletts2" >>

\* health_check, lines 145-150: engines = ["system"], plus "styletts2" when
\* `import styletts2` does not raise ImportError.
AvailableEngines(importable) ==
    IF importable THEN << "system", "styletts2" >> ELSE << "system" >>

\* GET /health (lines 143-156).  No await: one atomic step.
health_check ==
    /\ health = NoHealth
    /\ health' = [ status            |-> "ready",
                   active_engine     |-> active_engine_type,
                   available_engines |-> AvailableEngines(installed) ]
    /\ UNCHANGED << reqVars, fs, installed, neuralVars >>

\* The client receives the health response.
HealthDelivered ==
    /\ health # NoHealth
    /\ health' = NoHealth
    /\ UNCHANGED << reqVars, fs, installed, neuralVars >>

\* install_styletts2.py: pip install succeeds and the import is verified
\* (lines 11-19).  A failed install (lines 20-26) changes nothing.
install_styletts2 ==
    /\ ~installed
    /\ installed' = TRUE
    /\ UNCHANGED << reqVars, fs, neuralVars, health >>

----------------------------------------------------------------------------
\* POST /synthesize: the part of the handler before the await

Unused(files) == { n \in Names : ~files[n].used }

\* A handler that writes every request's audio to one fixed path.
FixedOutputPath(files) == 1

\* tempfile.NamedTemporaryFile(suffix=".wav", delete=False) (lines 170-171):
\* creates a file under a name no existing file has.
NamedTemporaryFile(files) == CHOOSE n \in Unused(files) : \A m \in Unused(files) : n <= m

\* Lines 164-188 up to the await: validate, create the temporary file, hand
\* the adapter call to a worker thread.
synthesize(r, t, e) ==
    /\ pc[r] = "idle"
    /\ \A q \in Reqs : q < r => pc[q] # "idle"
    /\ text' = [text EXCEPT ![r] = t]
    /\ engine' = [engine EXCEPT ![r] = e]
    /\ IF Strip(t) = <<>>
       THEN /\ response' = [response EXCEPT ![r] = HTTPException(400, "Text cannot be empty")]
            /\ pc' = [pc EXCEPT ![r] = "done"]
            /\ UNCHANGED << temp_file, fs >>
       ELSE LET name == NamedTemporaryFile(fs)
            IN  /\ temp_file' = [temp_file EXCEPT ![r] = name]
                /\ fs' = [fs EXCEPT ![name] = [exists |-> TRUE, bytes |-> <<>>, used |-> TRUE]]
                /\ pc' = [pc EXCEPT ![r] = IF e = "styletts2" THEN "neural_synthesize"
                                                             ELSE "system_synthesize"]
                /\ UNCHANGED response
    /\ UNCHANGED << exc, wrote, unlinkFailed, installed, neuralVars, health >>

----------------------------------------------------------------------------
\* The adapters (on worker threads)

\* The external engine returns normally, having left bytes w at output_file.
EngineWrites(r, w) ==
    /\ fs' = [fs EXCEPT ![temp_file[r]] = [exists |-> TRUE, bytes |-> w, used |-> TRUE]]
    /\ wrote' = [wrote EXCEPT ![r] = [returned |-> TRUE, exists |-> TRUE, bytes |-> w]]
    /\ UNCHANGED exc

\* The external engine returns normally, but no file is at output_file.
EngineLeavesNoFile(r) ==
    /\ fs' = [fs EXCEPT ![temp_file[r]] = Removed]
    /\ wrote' = [wrote EXCEPT ![r] = [returned |-> TRUE, exists |-> FALSE, bytes |-> <<>>]]
    /\ UNCHANGED exc

\* The adapter call ends with exception e.
Raises(r, e) ==
    /\ exc' = [exc EXCEPT ![r] = e]
    /\ UNCHANGED << fs, wrote >>

\* SystemTTS.synthesize (lines 41-87).  It shares nothing with other calls
\* but the filesystem, so the whole call is one step.  Every exception is
\* logged and raised again (lines 83-85).
SystemTTS_synthesize(r) ==
    /\ pc[r] = "system_synthesize"
    /\ \/ \E w \in Waves : EngineWrites(r, w)
       \/ EngineLeavesNoFile(r)
       \/ \E k \in ExcKinds :
            Raises(r, [kind |-> k, msg |-> ErrText(k, "sapi"), cause |-> "sapi",
                       orig |-> ErrText(k, "sapi")])
    /\ pc' = [pc EXCEPT ![r] = "returned"]
    /\ UNCHANGED << text, engine, temp_file, unlinkFailed, response, installed,
                    neuralVars, health >>

\* StyleTTS2Wrapper.synthesize, line 108: `if not self.ready`.
NeedsLoad(isReady) == ~isReady

\* Line 108: read self.ready and branch.
StyleTTS2_checkReady(r) ==
    /\ pc[r] = "neural_synthesize"
    /\ pc' = [pc EXCEPT ![r] = IF NeedsLoad(ready) THEN "load_import" ELSE "inference"]
    /\ UNCHANGED << text, engine, temp_file, exc, wrote, unlinkFailed, response,
                    fs, installed, neuralVars, health >>

\* StyleTTS2Wrapper.load, line 96: `from styletts2 import tts`; an absent
\* package raises ImportError, which lines 100-102 turn into
\* ImportError("StyleTTS2 not installed").
StyleTTS2_loadImport(r) ==
    /\ pc[r] = "load_import"
    /\ IF installed
       THEN /\ pc' = [pc EXCEPT ![r] = "load_construct"]
            /\ UNCHANGED exc
       ELSE /\ pc' = [pc EXCEPT ![r] = "returned"]
            /\ exc' = [exc EXCEPT ![r] =
                        [kind |-> "ImportError", msg |-> "StyleTTS2 not installed",
                         cause |-> "not_installed",
                         orig |-> "No module named 'styletts2'"]]
    /\ UNCHANGED << text, engine, temp_file, wrote, unlinkFailed, response,
                    fs, installed, neuralVars, health >>

\* Line 97: self.model = tts.StyleTTS2().  The constructor may raise: an
\* ImportError is replaced by ImportError("StyleTTS2 not installed") (lines
\* 100-102), any other exception is raised again (lines 103-105).
StyleTTS2_loadConstruct(r) ==
    /\ pc[r] = "load_construct"
    /\ \/ /\ nInst' = nInst + 1
          /\ model' = nInst + 1
          /\ pc' = [pc EXCEPT ![r] = "load_ready"]
          /\ UNCHANGED exc
       \/ /\ \E k \in ExcKinds :
                exc' = [exc EXCEPT ![r] =
                         [kind |-> k,
                          msg |-> IF k = "ImportError" THEN "StyleTTS2 not installed"
                                                       ELSE ErrText(k, "construct"),
                          cause |-> "construct",
                          orig |-> ErrText(k, "construct")]]
          /\ pc' = [pc EXCEPT ![r] = "returned"]
          /\ UNCHANGED << model, nInst >>
    /\ UNCHANGED << text, engine, temp_file, wrote, unlinkFailed, response,
                    fs, installed, ready, health >>

\* Line 98: self.ready = True.
StyleTTS2_loadReady(r) ==
    /\ pc[r] = "load_ready"
    /\ ready' = TRUE
    /\ pc' = [pc EXCEPT ![r] = "inference"]
    /\ UNCHANGED << text, engine, temp_file, exc, wrote, unlinkFailed, response,
                    fs, installed, model, nInst, health >>

\* Lines 112-113: self.model.inference(text, output_wav_file=output_file).
StyleTTS2_inference(r) ==
    /\ pc[r] = "inference"
    /\ \/ \E w \in Waves : EngineWrites(r, w)
       \/ EngineLeavesNoFile(r)
       \/ \E k \in ExcKinds :
            Raises(r, [kind |-> k, msg |-> ErrText(k, "inference"),
                       cause |-> "inference", orig |-> ErrText(k, "inference")])
    /\ pc' = [pc EXCEPT ![r] = "returned"]
    /\ UNCHANGED << text, engine, temp_file, unlinkFailed, response, installed,
                    neuralVars, health >>


----------------------------------------------------------------------------
\* POST /synthesize: the part of the handler after the await

\* A read-back check that only looks whether the file is there.
OnlyChecksExistence(file) == ~file.exists

\* A read-back check whose existence test lost its `not`.
ExistenceTestInverted(file) == file.exists \/ Len(file.bytes) = 0

\* Line 191: not os.path.exists(temp_file) or os.path.getsize(temp_file) == 0.
IsEmptyOutput(file) == ~file.exists \/ Len(file.bytes) = 0

\* Lines 194-215: read the file, encode it, probe it, build the result.
SuccessResponse(eng, file) ==
    LET info == sf_info(file.bytes)
    IN  [ status      |-> 200,
          detail      |-> "",
          audio       |-> b64encode(file.bytes),
          sample_rate |-> IF info.ok THEN info.samplerate ELSE DefaultSampleRate,
          duration    |-> IF info.ok THEN info.duration ELSE 0,
          engine      |-> eng ]

\* Lines 175-221: the response for an adapter call that ended with e (NoExc:
\* it returned) and left file at temp_file.  For "styletts2" an ImportError
\* becomes 503 (lines 179-181) and any other exception 500 with its text
\* (lines 182-184); an exception of the system adapter reaches line 219 and
\* becomes 500 with its text.
ResponseFor(eng, e, file) ==
    IF e.kind # "none" THEN
        IF eng = "styletts2" /\ e.kind = "ImportError"
        THEN HTTPException(503, "StyleTTS2 not installed")
        ELSE HTTPException(500, e.msg)
    ELSE IF IsEmptyOutput(file)
    THEN HTTPException(500, "Audio generation failed (empty output)")
    ELSE SuccessResponse(eng, file)

\* A cleanup placed in the except clauses instead of a finally block: it
\* runs only when the adapter raised.
CleanupOnErrorOnly(r, unlinkOk) ==
    IF exc[r].kind # "none" /\ temp_file[r] # 0 /\ fs[temp_file[r]].exists
    THEN /\ fs' = IF unlinkOk THEN [fs EXCEPT ![temp_file[r]] = Removed] ELSE fs
         /\ unlinkFailed' = [unlinkFailed EXCEPT ![r] = ~unlinkOk]
    ELSE UNCHANGED << fs, unlinkFailed >>

\* Lines 222-228, the finally block: if temp_file is set and the file exists,
\* os.unlink it; an exception of os.unlink is swallowed and the file stays.
Cleanup(r, unlinkOk) ==
    IF temp_file[r] # 0 /\ fs[temp_file[r]].exists
    THEN /\ fs' = IF unlinkOk THEN [fs EXCEPT ![temp_file[r]] = Removed] ELSE fs
         /\ unlinkFailed' = [unlinkFailed EXCEPT ![r] = ~unlinkOk]
    ELSE UNCHANGED << fs, unlinkFailed >>

\* Lines 179-228: the worker thread is done and the event loop resumes the
\* handler, which runs to its response without another await.
synthesize_resume(r) ==
    /\ pc[r] = "returned"
    /\ response' = [response EXCEPT ![r] =
                      ResponseFor(engine[r], exc[r], fs[temp_file[r]])]
    /\ \E unlinkOk \in BOOLEAN : Cleanup(r, unlinkOk)
    /\ pc' = [pc EXCEPT ![r] = "done"]
    /\ UNCHANGED << text, engine, temp_file, exc, wrote, installed, neuralVars, health >>

----------------------------------------------------------------------------

Next ==
    \/ health_check
    \/ HealthDelivered
    \/ install_styletts2
    \/ \E r \in Reqs, t \in Texts, e \in Engines : synthesize(r, t, e)
    \/ \E r \in Reqs : SystemTTS_synthesize(r)
    \/ \E r \in Reqs : StyleTTS2_checkReady(r)
    \/ \E r \in Reqs : StyleTTS2_loadImport(r)
    \/ \E r \in Reqs : StyleTTS2_loadConstruct(r)
    \/ \E r \in Reqs : StyleTTS2_loadReady(r)
    \/ \E r \in Reqs : StyleTTS2_inference(r)
    \/ \E r \in Reqs : synthesize_resume(r)

Spec == Init /\ [][Next]_vars


----------------------------------------------------------------------------
\* Properties

Done(r) == pc[r] = "done"

\* "Empty or whitespace-only", said without reference to strip().
IsBlank(t) == \A i \in 1..Len(t) : IsSpace(t[i])

Range(seq) == { seq[i] : i \in 1..Len(seq) }

\* What a client does with the audio field: base64 decoding.
RECURSIVE b64decode(_)
b64decode(s) ==
    IF Len(s) < 4 THEN <<>>
    ELSE
        LET v1 == B64Value(s[1])
            v2 == B64Value(s[2])
        IN  IF s[3] = "=" THEN << v1 * 4 + (v2 \div 16) >>
            ELSE
                LET v3 == B64Value(s[3])
                IN  IF s[4] = "=" THEN
                        << v1 * 4 + (v2 \div 16), (v2 % 16) * 16 + (v3 \div 4) >>
                    ELSE
                        << v1 * 4 + (v2 \div 16),
                           (v2 % 16) * 16 + (v3 \div 4),
                           (v3 % 4) * 64 + B64Value(s[4]) >>
                        \o b64decode(SubSeq(s, 5, Len(s)))

\* The temporary file created for request r is still on disk.
TempFileExists(r) == temp_file[r] # 0 /\ fs[temp_file[r]].exists

\* The adapter call of r returned normally and left nothing to read.
LeftEmptyOutput(r) ==
    wrote[r].returned /\ (~wrote[r].exists \/ Len(wrote[r].bytes) = 0)

\* C1 as stated: once the response of a request has been produced, the
\* temporary file created for it no longer exists, on every path.
C1_TempFileGone ==
    \A r \in Reqs : Done(r) => ~TempFileExists(r)

\* C1 as amended: once the response of a request has been produced, the
\* temporary file created for it no longer exists, unless os.unlink itself
\* failed for it (the failure is swallowed and the file stays).
C1_TempFileGoneUnlessUnlinkFails ==
    \A r \in Reqs : Done(r) => (~TempFileExists(r) \/ unlinkFailed[r])

\* A request answered 200 while another is still in flight; its file is gone.
C1_Witness ==
    \E r, q \in Reqs :
        /\ Done(r) /\ response[r].status = 200
        /\ temp_file[r] # 0 /\ ~fs[temp_file[r]].exists /\ ~unlinkFailed[r]
        /\ pc[q] = "returned" /\ TempFileExists(q)

\* C2 as stated: the neural model is loaded at most once, however many
\* styletts2 requests arrive before it is loaded.
C2_AtMostOneLoad == nInst <= 1

\* "Not installed" as the adapter reports it: load()'s ImportError.
IsNotInstalledError(e) == e.msg = "StyleTTS2 not installed"

\* C3 as stated: a styletts2 request made while the package is not installed
\* ends with 503 and never 500; a neural-adapter failure of any other kind
\* ends with 500 and never 503.
C3_NotInstalledIs503 ==
    \A r \in Reqs :
        (Done(r) /\ engine[r] = "styletts2" /\ exc[r].kind # "none") =>
            /\ exc[r].cause = "not_installed" => response[r].status = 503
            /\ ~IsNotInstalledError(exc[r]) => response[r].status = 500

\* C4: a request whose text is empty or whitespace-only is answered 400 for
\* either engine, at once: it never reaches an adapter (so it loads no
\* model) and no temporary file is created for it.
C4_BlankTextIs400 ==
    \A r \in Reqs :
        (pc[r] # "idle" /\ IsBlank(text[r])) =>
            /\ Done(r)
            /\ response[r].status = 400
            /\ temp_file[r] = 0
            /\ ~wrote[r].returned
            /\ exc[r] = NoExc

\* A whitespace-only styletts2 request answered 400 with the model unloaded.
C4_Witness ==
    \E r \in Reqs :
        /\ Done(r) /\ text[r] = << "\t", " " >> /\ engine[r] = "styletts2"
        /\ response[r].status = 400 /\ installed /\ nInst = 0

\* C5 as stated: when an adapter raises (anything from the system adapter,
\* anything but not-installed from the neural adapter), the request ends
\* with 500 carrying the underlying error text, and no audio.
C5_AdapterErrorsAre500 ==
    \A r \in Reqs :
        (/\ Done(r)
         /\ exc[r].kind # "none"
         /\ engine[r] = "system" \/ ~IsNotInstalledError(exc[r])) =>
            /\ response[r].status = 500
            /\ response[r].detail = exc[r].orig
            /\ response[r].audio = <<>>

\* C6 as stated: if the adapter returns without error but the file is missing
\* or has zero bytes, the request ends with 500 "empty output", carries no
\* audio, and the temporary file is removed.
C6_EmptyOutputIs500AndRemoved ==
    \A r \in Reqs :
        (Done(r) /\ LeftEmptyOutput(r)) =>
            /\ response[r].status = 500
            /\ response[r].detail = "Audio generation failed (empty output)"
            /\ response[r].audio = <<>>
            /\ ~TempFileExists(r)

\* C6 as amended: ... and the temporary file is removed unless os.unlink
\* itself failed for it.
C6_EmptyOutputIs500AndRemovedUnlessUnlinkFails ==
    \A r \in Reqs :
        (Done(r) /\ LeftEmptyOutput(r)) =>
            /\ response[r].status = 500
            /\ response[r].detail = "Audio generation failed (empty output)"
            /\ response[r].audio = <<>>
            /\ ~TempFileExists(r) \/ unlinkFailed[r]

\* A zero-byte file was left, the request ended with 500 and the file is gone.
C6_Witness ==
    \E r \in Reqs :
        /\ Done(r) /\ wrote[r].returned /\ wrote[r].exists /\ wrote[r].bytes = <<>>
        /\ response[r].status = 500 /\ ~fs[temp_file[r]].exists

\* C7 as stated: every non-empty text routed to the system engine returns a
\* non-empty audio payload with engine = "system".
C7_SystemAlwaysReturnsAudio ==
    \A r \in Reqs :
        (Done(r) /\ engine[r] = "system" /\ ~IsBlank(text[r])) =>
            /\ response[r].status = 200
            /\ response[r].audio # <<>>
            /\ response[r].engine = "system"

\* C7 as amended: every non-empty text routed to the system engine, whose
\* adapter call returns without raising and leaves a non-empty file, returns
\* a non-empty audio payload with engine = "system".
C7_SystemReturnsAudioWhenAdapterDoes ==
    \A r \in Reqs :
        (/\ Done(r) /\ engine[r] = "system" /\ ~IsBlank(text[r])
         /\ wrote[r].returned /\ wrote[r].exists /\ Len(wrote[r].bytes) > 0) =>
            /\ response[r].status = 200
            /\ response[r].audio # <<>>
            /\ response[r].engine = "system"

\* A padded text synthesized by the system engine into three bytes.
C7_Witness ==
    \E r \in Reqs :
        /\ Done(r) /\ engine[r] = "system" /\ text[r] = << " ", "a", " " >>
        /\ wrote[r].bytes = << 7, 255, 130 >>
        /\ response[r].status = 200 /\ Len(response[r].audio) = 4

\* C8: every health response lists "system", and lists "styletts2" exactly
\* when the package can be imported at that call, whatever earlier calls
\* answered and whatever the state of the neural adapter.
C8_HealthListsImportable ==
    [][ (health' # health /\ health' # NoHealth) =>
            /\ health'.status = "ready"
            /\ "system" \in Range(health'.available_engines)
            /\ "styletts2" \in Range(health'.available_engines) <=> installed
      ]_vars

\* A health response lists styletts2 although the adapter's load failed and
\* the adapter is not ready.
C8_Witness ==
    /\ "styletts2" \in Range(health.available_engines)
    /\ ~ready
    /\ \E r \in Reqs : exc[r].cause = "construct"

\* C9: the audio field of a successful response decodes to exactly the bytes
\* the adapter wrote for that same request, also with requests in flight
\* together.
C9_AudioRoundTrip ==
    \A r \in Reqs :
        (Done(r) /\ response[r].status = 200) =>
            /\ wrote[r].returned /\ wrote[r].exists
            /\ b64decode(response[r].audio) = wrote[r].bytes

\* Two requests overlapped and wrote different audio; the one answered
\* carries its own.
C9_Witness ==
    \E r, q \in Reqs :
        /\ pc[q] = "returned" /\ wrote[q].bytes = << 82, 73 >>
        /\ Done(r) /\ response[r].status = 200
        /\ wrote[r].bytes = << 7, 255, 130 >>
        /\ b64decode(response[r].audio) = << 7, 255, 130 >>

InLoad(p) == p \in {"load_import", "load_construct", "load_ready"}

\* C10 as stated: ready implies a model instance is set; ready never goes
\* back to false; a failed load leaves the adapter not ready; and once the
\* adapter is ready no synthesize call that comes later starts a load.
C10_ReadinessMonotonic ==
    [][ /\ ready' => model' # 0
        /\ ready => ready'
        /\ \A r \in Reqs :
              (InLoad(pc[r]) /\ pc'[r] = "returned") => ~ready'
        /\ \A r \in Reqs :
              (ready /\ pc[r] \in {"idle", "neural_synthesize"}) => ~InLoad(pc'[r])
      ]_vars

====
